---------------------------- MODULE Spec2Model ----------------------------
(***************************************************************************)
(* Strayl MCP server (src/src/strayl_mcp_server/server.py): seven tools,   *)
(* six of which read a credential, validate their inputs, POST once to a   *)
(* fixed backend and render the JSON reply as text.                        *)
(*                                                                         *)
(* A text is a sequence of lines and a line a sequence of fragments; the   *)
(* text the tool returns is the fragments of each line concatenated, the   *)
(* lines joined by a newline.  A JSON value is a record tagged by its      *)
(* type, an exception a record naming its Python class.                    *)
(***************************************************************************)
EXTENDS Integers, Sequences, FiniteSets, TLC

\* ------------------------------------------------------------------ bounds
\* Longest results list the backend returns in the model.
MaxResults == 11
\* What the backend may report in total_results beyond the length of the list.
Surplus == 40

\* server.py:113, 117, 216, 220: entries rendered and the threshold of the notice.
DisplayCap == 10

\* Invocations of the sequential specification.
SeqCalls == {1}
\* All invocation slots of the model.
Calls == {1, 2}

VARIABLES
    env,      \* the process environment: STRAYL_API_KEY
    pc,       \* pc[i]: "idle", "await", "arrived", "done" or "raised"
    tool,     \* tool[i]: the name of the tool invoked
    args,     \* args[i]: the arguments of the invocation
    nreq,     \* nreq[i]: HTTP requests the invocation has issued
    req,      \* req[i]: the request in flight or sent
    resp,     \* resp[i]: what the transport handed back
    result    \* result[i]: the text returned, or the fault that escaped

vars == <<env, pc, tool, args, nreq, req, resp, result>>

\* ------------------------------------------------------------ Python values
\* Records stand for Python dicts and objects.  A constructor lists its fields
\* in the order in which the names first occur in this module, which is the
\* order TLC keeps a record in: a record built in that order is never
\* rearranged after it is built, so two workers may read it at once.
\* Optional[str] = None: a value no caller string equals.
None == "<None>"
\* start_time = None (server.py:52): times are minutes >= 0.
NoneTime == -1

\* bool(s) of an Optional[str]
StrTruthy(str) == str # None /\ str # ""

JNull == [type |-> "null"]
JBool(b) == [type |-> "bool", b |-> b]
JNum(n) == [type |-> "number", n |-> n]
JStr(s) == [type |-> "string", s |-> s]
JArr(items) == [type |-> "array", items |-> items]
JObj(fields) == [type |-> "object", fields |-> fields]
EmptyFields == [k \in {} |-> JNull]

\* bool(v) of a parsed JSON value
Truthy(j) ==
    CASE j.type = "null" -> FALSE
      [] j.type = "bool" -> j.b
      [] j.type = "number" -> j.n # 0
      [] j.type = "string" -> j.s # ""
      [] j.type = "array" -> Len(j.items) > 0
      [] j.type = "object" -> DOMAIN j.fields # {}

\* str(v) inside an f-string
Str(j) ==
    CASE j.type = "null" -> "None"
      [] j.type = "bool" -> IF j.b THEN "True" ELSE "False"
      [] j.type = "number" -> ToString(j.n)
      [] j.type = "string" -> j.s
      [] j.type = "array" -> "[...]"
      [] j.type = "object" -> "{...}"

\* key in d
Has(d, k) == k \in DOMAIN d.fields
\* d.get(k, default)
Get(d, k, default) == IF Has(d, k) THEN d.fields[k] ELSE default

\* --------------------------------------------------------------- exceptions
Exc(cls, msg) == [cls |-> cls, msg |-> msg]

\* The base class of each exception class the tools can meet.
Base(cls) ==
    CASE cls = "JSONDecodeError" -> "ValueError"
      [] cls = "ValueError" -> "Exception"
      [] cls = "AttributeError" -> "Exception"
      [] cls = "TypeError" -> "Exception"
      [] cls = "ReadTimeout" -> "TimeoutException"
      [] cls = "TimeoutException" -> "TransportError"
      [] cls = "ConnectError" -> "TransportError"
      [] cls = "TransportError" -> "Exception"
      [] cls = "Exception" -> "BaseException"
      [] OTHER -> "BaseException"

RECURSIVE IsInstance(_, _)
\* isinstance(e, cls), as an except clause decides it
IsInstance(cls, of) ==
    IF cls = of THEN TRUE
    ELSE IF cls = "BaseException" THEN FALSE
    ELSE IsInstance(Base(cls), of)

\* What a stretch of a handler's try body ends in.
Raise(e) == [tag |-> "raise", exc |-> e]
Return(text) == [tag |-> "return", text |-> text]
Post(request) == [tag |-> "post", request |-> request]
Value(v) == [tag |-> "value", v |-> v]

\* ------------------------------------------------------------------- texts
Line(frags) == <<frags>>
\* Some fragment of the text is s.
Contains(text, s) == \E k \in DOMAIN text : \E j \in DOMAIN text[k] : text[k][j] = s
\* The text begins with fragment s.
StartsWith(text, s) == Len(text) > 0 /\ Len(text[1]) > 0 /\ text[1][1] = s
\* "-" * 80 and "=" * 80
Dashes == "--------------------------------------------------------------------------------"
Equals == "================================================================================"

\* ------------------------------------------------------------ environment
\* os.getenv(name, default) on the one variable the server reads
getenv(e, default) == IF e.set THEN e.value ELSE default

\* get_api_key without its check: an empty key is handed on.
get_api_key_unchecked(e) == Value(getenv(e, ""))

\* def get_api_key() -> str
get_api_key(e) ==
    LET api_key == getenv(e, "") IN
    IF api_key = ""
    THEN Raise(Exc("ValueError", "STRAYL_API_KEY environment variable is required. Get your API key from https://strayl.dev"))
    ELSE Value(api_key)

\* ------------------------------------------------------ time-period resolver
MinutesPerHour == 60
HoursPerDay == 24
MinutesPerDay == MinutesPerHour * HoursPerDay

\* The resolution rule of a token (after lower-casing and stripping):
\* a relative window of n minutes, a named day, or none.
TokenRule(token) ==
    CASE token \in {"5m", "5_minutes", "5_mins"} -> [rule |-> "relative", width |-> 5]
      [] token \in {"1h", "1_hour"} -> [rule |-> "relative", width |-> MinutesPerHour]
      [] token \in {"7d", "last_7_days"} -> [rule |-> "relative", width |-> 7 * MinutesPerDay]
      [] token = "today" -> [rule |-> "today", width |-> 0]
      [] token = "yesterday" -> [rule |-> "yesterday", width |-> 0]
      [] OTHER -> [rule |-> "none", width |-> 0]

\* 00:00:00 UTC of the day of instant t
Midnight(t) == t - (t % MinutesPerDay)

\* parse_time_period(token) at instant now: <<start, end>>, or <<None, None>>
parse_time_period(token, now) ==
    LET r == TokenRule(token) IN
    CASE r.rule = "relative" -> <<now - r.width, now>>
      [] r.rule = "today" -> <<Midnight(now), now>>
      [] r.rule = "yesterday" -> <<Midnight(now) - MinutesPerDay, Midnight(now)>>
      [] OTHER -> <<NoneTime, NoneTime>>

\* datetime.isoformat(): the instant as text
isoformat(t) == ToString(t)

\* format_log_result(log): one log record as display text
format_log_result(log) ==
    IF log.type # "object"
    THEN Raise(Exc("AttributeError", "object has no attribute 'get'"))
    ELSE Value(Str(Get(log, "message", JStr("N/A"))))

\* ---------------------------------------------------------------- transport
\* response.json()
ResponseJson(r) ==
    IF r.body.json
    THEN Value(r.body.value)
    ELSE Raise(Exc("JSONDecodeError", "Expecting value: line 1 column 1 (char 0)"))

\* The branch every tool takes on response.status_code != 200:
\*   error_data = response.json() if content-type == "application/json" else {}
\*   return f"Error: API returned status {code}: {error_data.get('error', response.text)}"
StatusError(r) ==
    LET error_data == IF r.ctype = "application/json"
                      THEN ResponseJson(r)
                      ELSE Value(JObj(EmptyFields)) IN
    IF error_data.tag = "raise" THEN error_data
    ELSE IF error_data.v.type # "object"
    THEN Raise(Exc("AttributeError", "object has no attribute 'get'"))
    ELSE Return(Line(<<"Error", ": ", "API returned status ", ToString(r.status), ": ",
                       Str(Get(error_data.v, "error", JStr(r.body.text)))>>))

\* The text of each tool's `except httpx.TimeoutException` clause, after "Error: Request ".
TimeoutTail(t) ==
    CASE t = "search_documentation" -> " (Gemini processing can take up to 60s). Please try again."
      [] t = "index_documentation" -> ". Indexing can take several minutes. Please check the status later."
      [] OTHER -> ". Please try again."

\* The tools whose last clause appends traceback.format_exc().
WithTraceback == {"search_documentation", "list_documentation_sources",
                  "index_documentation", "manage_documentation_chats"}

\* The except clauses without the last one, `except Exception`.
ExceptClauses_NoCatchAll(t, e) ==
    IF IsInstance(e.cls, "ValueError")
    THEN Return(Line(<<"Configuration error", ": ", e.msg>>))
    ELSE IF IsInstance(e.cls, "TimeoutException")
    THEN Return(Line(<<"Error", ": ", "Request ", "timed out", TimeoutTail(t)>>))
    ELSE Raise(e)

\* The except clauses with a timeout answered by posting once more.
ExceptClauses_RetryOnTimeout(t, e) ==
    IF IsInstance(e.cls, "ValueError")
    THEN Return(Line(<<"Configuration error", ": ", e.msg>>))
    ELSE IF IsInstance(e.cls, "TimeoutException")
    THEN Post([route |-> "retry"])
    ELSE Return(Line(<<"Error", ": ", e.msg>>))

\* A tool's except clauses, in order, applied to exception e raised in its try body.
ExceptClauses(t, e) ==
    IF IsInstance(e.cls, "ValueError")
    THEN Return(Line(<<"Configuration error", ": ", e.msg>>))
    ELSE IF IsInstance(e.cls, "TimeoutException")
    THEN Return(Line(<<"Error", ": ", "Request ", "timed out", TimeoutTail(t)>>))
    ELSE IF IsInstance(e.cls, "Exception")
    THEN Return(Line(<<"Error", ": ", e.msg>>
                     \o (IF t \in WithTraceback THEN <<"\n\nTraceback:\n", "<traceback>">> ELSE <<>>)))
    ELSE Raise(e)

\* try: <body> except ...: what the tool's coroutine does with the body's outcome.
Try(t, outcome) == IF outcome.tag = "raise" THEN ExceptClauses(t, outcome.exc) ELSE outcome

\* ----------------------------------------------------- search_logs_semantic
\* search_logs_semantic without the short-circuit on a failed resolution.
SemanticBegin_NoShortCircuit(a, e, now) ==
    LET api_key == get_api_key(e) IN
    IF api_key.tag = "raise" THEN api_key
    ELSE Post([route |-> "/search-logs", bearer |-> api_key.v, timeout |-> 30,
               payload |-> [query |-> a.query, match_threshold |-> a.match_threshold,
                            match_count |-> a.match_count]])

\* server.py:49-81: up to the await of client.post.
SemanticBegin(a, e, now) ==
    LET api_key == get_api_key(e) IN
    IF api_key.tag = "raise" THEN api_key
    ELSE
    LET times == IF StrTruthy(a.time_period)
                 THEN parse_time_period(a.time_period, now)
                 ELSE <<NoneTime, NoneTime>>
        start_time == times[1]
        end_time == times[2] IN
    IF StrTruthy(a.time_period) /\ start_time = NoneTime
    THEN Return(Line(<<"Error", ": ", "Invalid time period '", a.time_period, "'",
                       ". Supported values: 5m, 1h, today, yesterday, 7d, etc.">>))
    ELSE Post([route |-> "/search-logs",
               bearer |-> api_key.v,
               timeout |-> 30,
               payload |-> [query |-> a.query,
                            match_threshold |-> a.match_threshold,
                            match_count |-> a.match_count]
                           @@ (IF start_time # NoneTime
                               THEN [start_time |-> isoformat(start_time)] ELSE <<>>)
                           @@ (IF end_time # NoneTime
                               THEN [end_time |-> isoformat(end_time)] ELSE <<>>)])

\* for i, log in enumerate(results[:10], 1): the two lines of each entry
RECURSIVE LogEntries(_, _)
LogEntries(items, i) ==
    IF i > Len(items) \/ i > DisplayCap THEN Value(<<>>)
    ELSE LET f == format_log_result(items[i]) IN
         IF f.tag = "raise" THEN f
         ELSE LET rest == LogEntries(items, i + 1) IN
              IF rest.tag = "raise" THEN rest
              ELSE Value(<<<<ToString(i), ". ", f.v>>, <<Dashes>>>> \o rest.v)

\* server.py:113-120 and 216-223: the entries, then the notice if total > 10.
LogListing(header, results, total) ==
    IF results.type # "array"
    THEN Raise(Exc("TypeError", "object is not subscriptable"))
    ELSE LET entries == LogEntries(results.items, 1) IN
    IF entries.tag = "raise" THEN entries
    ELSE IF total.type \notin {"number", "bool"}
    THEN Raise(Exc("TypeError", "'>' not supported between instances"))
    ELSE LET n == IF total.type = "number" THEN total.n ELSE IF total.b THEN 1 ELSE 0 IN
         Return(header \o entries.v
                \o (IF n > DisplayCap
                    THEN <<<<"\n", "... and ", ToString(n - DisplayCap), " more results">>>>
                    ELSE <<>>))

\* server.py:83-120: from the response to the return.
SemanticAfter(a, r) ==
    IF r.status # 200 THEN StatusError(r)
    ELSE LET parsed == ResponseJson(r) IN
    IF parsed.tag = "raise" THEN parsed
    ELSE LET data == parsed.v IN
    IF data.type # "object" THEN Raise(Exc("AttributeError", "object has no attribute 'get'"))
    ELSE IF ~Truthy(Get(data, "success", JNull))
    THEN Return(Line(<<"Error", ": ", Str(Get(data, "error", JStr("Unknown error")))>>))
    ELSE
    LET results == Get(data, "results", JArr(<<>>))
        total == Get(data, "total_results", JNum(0))
        metadata == Get(data, "search_metadata", JObj(EmptyFields)) IN
    IF ~Truthy(results)
    THEN Return(Line(<<"No logs found", " for query '", a.query, "'">>
                     \o (IF StrTruthy(a.time_period)
                         THEN <<" in period '", a.time_period, "'">> ELSE <<>>)))
    ELSE IF metadata.type # "object"
    THEN Raise(Exc("AttributeError", "object has no attribute 'get'"))
    ELSE LogListing(
            <<<<"Semantic Search Results for: '", a.query, "'">>,
              <<"Total results: ", Str(total)>>>>
            \o (IF StrTruthy(a.time_period) THEN <<<<"Time period: ", a.time_period>>>> ELSE <<>>)
            \o <<<<"Similarity threshold: ", a.match_threshold>>,
                 <<"Logs with embeddings: ", Str(Get(metadata, "logs_with_embeddings", JNum(0)))>>,
                 <<"\n", Equals, "\n">>>>,
            results, total)

\* -------------------------------------------------------- search_logs_exact
LogLevels == {"info", "warn", "error", "debug"}

\* str.lower() on the level strings the model draws from
lower(s) ==
    CASE s = "ERROR" -> "error"
      [] s = "Warn" -> "warn"
      [] OTHER -> s

\* search_logs_exact without the end_time of server.py:167-168.
ExactBegin_StartOnly(a, e, now) ==
    LET api_key == get_api_key(e) IN
    IF api_key.tag = "raise" THEN api_key
    ELSE
    LET times == IF StrTruthy(a.time_period)
                 THEN parse_time_period(a.time_period, now)
                 ELSE <<NoneTime, NoneTime>>
        start_time == times[1]
        end_time == times[2] IN
    IF StrTruthy(a.time_period) /\ start_time = NoneTime
    THEN Return(Line(<<"Error", ": ", "Invalid time period '", a.time_period, "'">>))
    ELSE IF StrTruthy(a.level) /\ lower(a.level) \notin LogLevels
    THEN Return(Line(<<"Error", ": ", "Invalid log level '", a.level, "'",
                       ". Must be one of: info, warn, error, debug">>))
    ELSE Post([route |-> "/exact-search-logs",
               bearer |-> api_key.v,
               timeout |-> 30,
               payload |-> [query |-> a.query,
                            case_sensitive |-> a.case_sensitive,
                            limit |-> a.limit]
                           @@ (IF StrTruthy(a.level)
                               THEN [level |-> lower(a.level)] ELSE <<>>)
                           @@ (IF start_time # NoneTime
                               THEN [start_time |-> isoformat(start_time)] ELSE <<>>)])

\* server.py:143-179: up to the await of client.post.
ExactBegin(a, e, now) ==
    LET api_key == get_api_key(e) IN
    IF api_key.tag = "raise" THEN api_key
    ELSE
    LET times == IF StrTruthy(a.time_period)
                 THEN parse_time_period(a.time_period, now)
                 ELSE <<NoneTime, NoneTime>>
        start_time == times[1]
        end_time == times[2] IN
    IF StrTruthy(a.time_period) /\ start_time = NoneTime
    THEN Return(Line(<<"Error", ": ", "Invalid time period '", a.time_period, "'">>))
    ELSE IF StrTruthy(a.level) /\ lower(a.level) \notin LogLevels
    THEN Return(Line(<<"Error", ": ", "Invalid log level '", a.level, "'",
                       ". Must be one of: info, warn, error, debug">>))
    ELSE Post([route |-> "/exact-search-logs",
               bearer |-> api_key.v,
               timeout |-> 30,
               payload |-> [query |-> a.query,
                            case_sensitive |-> a.case_sensitive,
                            limit |-> a.limit]
                           @@ (IF StrTruthy(a.level)
                               THEN [level |-> lower(a.level)] ELSE <<>>)
                           @@ (IF start_time # NoneTime
                               THEN [start_time |-> isoformat(start_time)] ELSE <<>>)
                           @@ (IF end_time # NoneTime
                               THEN [end_time |-> isoformat(end_time)] ELSE <<>>)])

\* The filters of the empty-result message without the level.
ExactFilters_PeriodOnly(a) ==
    IF StrTruthy(a.time_period)
    THEN <<" with filters: ", "period '", a.time_period, "'">> ELSE <<>>

\* ', '.join(filters) of server.py:194-199
ExactFilters(a) ==
    LET period == IF StrTruthy(a.time_period) THEN <<"period '", a.time_period, "'">> ELSE <<>>
        level == IF StrTruthy(a.level) THEN <<"level '", a.level, "'">> ELSE <<>> IN
    IF period = <<>> /\ level = <<>> THEN <<>>
    ELSE <<" with filters: ">> \o period
         \o (IF period # <<>> /\ level # <<>> THEN <<", ">> ELSE <<>>) \o level

\* server.py:181-223: from the response to the return.
ExactAfter(a, r) ==
    IF r.status # 200 THEN StatusError(r)
    ELSE LET parsed == ResponseJson(r) IN
    IF parsed.tag = "raise" THEN parsed
    ELSE LET data == parsed.v IN
    IF data.type # "object" THEN Raise(Exc("AttributeError", "object has no attribute 'get'"))
    ELSE IF ~Truthy(Get(data, "success", JNull))
    THEN Return(Line(<<"Error", ": ", Str(Get(data, "error", JStr("Unknown error")))>>))
    ELSE
    LET results == Get(data, "results", JArr(<<>>))
        total == Get(data, "total_results", JNum(0)) IN
    IF ~Truthy(results)
    THEN Return(Line(<<"No logs found", " for exact text '", a.query, "'">> \o ExactFilters(a)))
    ELSE LogListing(
            <<<<"Exact Search Results for: '", a.query, "'">>,
              <<"Total results: ", Str(total)>>>>
            \o (IF StrTruthy(a.time_period) THEN <<<<"Time period: ", a.time_period>>>> ELSE <<>>)
            \o (IF StrTruthy(a.level) THEN <<<<"Log level: ", a.level>>>> ELSE <<>>)
            \o <<<<"Case sensitive: ", a.case_sensitive>>,
                 <<"\n", Equals, "\n">>>>,
            results, total)

\* ----------------------------------------------------- search_documentation
\* `key in data` on a parsed body: membership for an object or an array, a
\* TypeError for null, a number or a boolean.  (A bare JSON string is not drawn.)
KeyIn(data, k) ==
    CASE data.type = "object" -> Value(Has(data, k))
      [] data.type = "array" ->
            Value(\E n \in DOMAIN data.items :
                     data.items[n].type = "string" /\ data.items[n].s = k)
      [] OTHER -> Raise(Exc("TypeError", "argument is not iterable"))

\* server.py:298: the character budget of a record's content
ContentBudget == 300

Content300 == "aaaaaaaaaaaaaaaaaaaaaaaaaaaaaaaaaaaaaaaaaaaaaaaaaaaaaaaaaaaaaaaaaaaaaaaaaaaaaaaaaaaaaaaaaaaaaaaaaaaaaaaaaaaaaaaaaaaaaaaaaaaaaaaaaaaaaaaaaaaaaaaaaaaaaaaaaaaaaaaaaaaaaaaaaaaaaaaaaaaaaaaaaaaaaaaaaaaaaaaaaaaaaaaaaaaaaaaaaaaaaaaaaaaaaaaaaaaaaaaaaaaaaaaaaaaaaaaaaaaaaaaaaaaaaaaaaaaaaaaaaaaaaaaaaaaaaaaaaaaa"
Content301 == "aaaaaaaaaaaaaaaaaaaaaaaaaaaaaaaaaaaaaaaaaaaaaaaaaaaaaaaaaaaaaaaaaaaaaaaaaaaaaaaaaaaaaaaaaaaaaaaaaaaaaaaaaaaaaaaaaaaaaaaaaaaaaaaaaaaaaaaaaaaaaaaaaaaaaaaaaaaaaaaaaaaaaaaaaaaaaaaaaaaaaaaaaaaaaaaaaaaaaaaaaaaaaaaaaaaaaaaaaaaaaaaaaaaaaaaaaaaaaaaaaaaaaaaaaaaaaaaaaaaaaaaaaaaaaaaaaaaaaaaaaaaaaaaaaaaaaaaaaaaab"

\* len(s), s[:300] and str.strip() on the strings the model draws from
len(s) ==
    CASE s = Content300 -> ContentBudget
      [] s = Content301 -> ContentBudget + 1
      [] s = "Set STRAYL_API_KEY first." -> 25
      [] OTHER -> 0
Take(s, n) == IF s = Content301 /\ n = ContentBudget THEN Content300 ELSE s
strip(s) ==
    CASE s = "   " -> ""
      [] s = " Restart the agent. " -> "Restart the agent."
      [] OTHER -> s

\* server.py:245-268: up to the await of client.post.
DocBegin(a, e) ==
    LET api_key == get_api_key(e) IN
    IF api_key.tag = "raise" THEN api_key
    ELSE Post([route |-> "/search-documentation",
               bearer |-> api_key.v,
               timeout |-> 60,
               payload |-> [query |-> a.query, limit |-> 15,
                            similarity_threshold |-> "0.22", use_ai |-> a.use_ai]
                           @@ (IF StrTruthy(a.chat_id) THEN [chat_id |-> a.chat_id] ELSE <<>>)
                           @@ (IF StrTruthy(a.source_id) THEN [source_id |-> a.source_id] ELSE <<>>)])

\* server.py:296-302: the two lines of each record
RECURSIVE DocEntries(_, _)
DocEntries(items, i) ==
    IF i > Len(items) THEN Value(<<>>)
    ELSE LET record == items[i] IN
    IF record.type # "object" THEN Raise(Exc("AttributeError", "object has no attribute 'get'"))
    ELSE LET source == Get(record, "source", JObj(EmptyFields))
             content == Get(record, "content", JStr("")) IN
    IF content.type # "string" THEN Raise(Exc("TypeError", "object is not subscriptable"))
    ELSE IF source.type # "object" THEN Raise(Exc("AttributeError", "object has no attribute 'get'"))
    ELSE LET rest == DocEntries(items, i + 1) IN
    IF rest.tag = "raise" THEN rest
    ELSE Value(<<<<ToString(i), ". **", Str(Get(source, "name", JStr("Unknown"))), "**">>,
                 <<"   ", Take(content.s, ContentBudget), "...", "\n">>>> \o rest.v)

\* server.py:270-304: from the response to the return.
DocAfter(a, r) ==
    IF r.status # 200 THEN StatusError(r)
    ELSE LET parsed == ResponseJson(r) IN
    IF parsed.tag = "raise" THEN parsed
    ELSE LET data == parsed.v
             has_error == KeyIn(data, "error") IN
    IF has_error.tag = "raise" THEN has_error
    ELSE IF data.type # "object" THEN Raise(Exc("AttributeError", "object has no attribute 'get'"))
    ELSE IF has_error.v
    THEN Return(Line(<<"Error", ": ", Str(Get(data, "error", JStr("Unknown error")))>>))
    ELSE
    LET results == Get(data, "results", JArr(<<>>))
        structured_answer == Get(data, "structured_answer", JNull) IN
    IF ~Truthy(results) /\ ~Truthy(structured_answer)
    THEN Return(Line(<<"No documentation found", " for query '", a.query, "'">>
                     \o (IF StrTruthy(a.source_id)
                         THEN <<" in source '", a.source_id, "'">> ELSE <<>>)))
    ELSE IF Truthy(structured_answer) /\ strip(Str(structured_answer)) # ""
    THEN Return(Line(<<strip(Str(structured_answer))>>))
    ELSE IF results.type # "array"
    THEN Raise(Exc("TypeError", "object has no len()"))
    ELSE LET entries == DocEntries(results.items, 1) IN
    IF entries.tag = "raise" THEN entries
    \* the header of server.py:294, its non-ASCII words written in ASCII
    ELSE Return(<<<<"[books] ", ToString(Len(results.items)), " result(s) for query: ", a.query, "\n">>>>
                \o entries.v)

\* ------------------------------------------------ list_documentation_sources
YesNo(b, no) == IF b THEN "Yes" ELSE no

\* str.upper() on the status strings the model draws from
upper(s) ==
    CASE s = "ready" -> "READY"
      [] s = "user" -> "USER"
      [] s = "assistant" -> "ASSISTANT"
      [] OTHER -> s

\* server.py:329-344: up to the await of client.post.
SourcesBegin(a, e) ==
    LET api_key == get_api_key(e) IN
    IF api_key.tag = "raise" THEN api_key
    ELSE Post([route |-> "/list-documentation-sources",
               bearer |-> api_key.v,
               timeout |-> 30,
               payload |-> [include_public |-> a.include_public,
                            include_private |-> a.include_private]])

\* server.py:376-403: the lines of each source (the model's sources carry no
\* chunks_count and no indexed_at)
RECURSIVE SourceEntries(_, _)
SourceEntries(items, i) ==
    IF i > Len(items) THEN Value(<<>>)
    ELSE LET source == items[i] IN
    IF source.type # "object" THEN Raise(Exc("AttributeError", "object has no attribute 'get'"))
    ELSE LET status == Get(source, "status", JStr("unknown")) IN
    IF status.type # "string" THEN Raise(Exc("AttributeError", "object has no attribute 'upper'"))
    ELSE LET rest == SourceEntries(items, i + 1) IN
    IF rest.tag = "raise" THEN rest
    ELSE Value(<<<<ToString(i), ". ", Str(Get(source, "name", JStr("Unnamed")))>>,
                 <<"   ID: ", Str(Get(source, "id", JStr("Unknown")))>>,
                 <<"   URL: ", Str(Get(source, "url", JStr("N/A")))>>,
                 <<"   Status: ", upper(status.s)>>,
                 <<"   Public: ",
                   YesNo(Truthy(Get(source, "is_public", JBool(FALSE))), "No (Your private source)")>>,
                 <<"">>>> \o rest.v)

\* server.py:346-409: from the response to the return.
SourcesAfter(a, r) ==
    IF r.status # 200 THEN StatusError(r)
    ELSE LET parsed == ResponseJson(r) IN
    IF parsed.tag = "raise" THEN parsed
    ELSE LET data == parsed.v
             has_error == KeyIn(data, "error") IN
    IF has_error.tag = "raise" THEN has_error
    ELSE IF data.type # "object" THEN Raise(Exc("AttributeError", "object has no attribute 'get'"))
    ELSE IF has_error.v
    THEN Return(Line(<<"Error", ": ", Str(Get(data, "error", JStr("Unknown error")))>>))
    ELSE
    LET sources == Get(data, "sources", JArr(<<>>))
        count == Get(data, "count", JNum(0)) IN
    IF ~Truthy(sources)
    THEN Return(Line(<<"No documentation sources found">>
                     \o (IF a.include_public /\ a.include_private THEN <<>>
                         ELSE <<" (">>
                              \o (IF ~a.include_public THEN <<"excluding public">> ELSE <<>>)
                              \o (IF ~a.include_public /\ ~a.include_private THEN <<", ">> ELSE <<>>)
                              \o (IF ~a.include_private THEN <<"excluding private">> ELSE <<>>)
                              \o <<")">>)
                     \o <<".">>))
    ELSE IF sources.type # "array"
    THEN Raise(Exc("TypeError", "object is not iterable"))
    ELSE LET entries == SourceEntries(sources.items, 1) IN
    IF entries.tag = "raise" THEN entries
    ELSE Return(<<<<Equals>>, <<"AVAILABLE DOCUMENTATION SOURCES">>, <<Equals>>,
                  <<"Total sources: ", Str(count)>>,
                  <<"Filters: Public=", YesNo(a.include_public, "No"),
                    ", Private=", YesNo(a.include_private, "No")>>,
                  <<"">>>>
                \o entries.v
                \o <<<<Equals>>,
                     <<"\n", "Tip: Use source_id to search within a specific documentation source">>,
                     <<"   Example: search_documentation('query', source_id='uuid-here')">>>>)

\* ------------------------------------------------------ index_documentation
\* format(n, ",") for 0 <= n < 1000000
Thousands(n) ==
    IF n < 1000 THEN <<ToString(n)>>
    ELSE <<ToString(n \div 1000), ",",
           IF n % 1000 < 10 THEN "00" ELSE IF n % 1000 < 100 THEN "0" ELSE "",
           ToString(n % 1000)>>

\* server.py:441-457: up to the await of client.post.
IndexBegin(a, e) ==
    LET api_key == get_api_key(e) IN
    IF api_key.tag = "raise" THEN api_key
    ELSE Post([route |-> "/index-documentation",
               bearer |-> api_key.v,
               timeout |-> 300,
               payload |-> [url |-> a.url, is_public |-> a.is_public, force |-> a.force]])

\* server.py:488-497: the timing lines (the model's performance object carries
\* no stages)
IndexTimings(performance) ==
    IF ~Truthy(performance) THEN Value(<<>>)
    ELSE IF performance.type # "object"
    THEN Raise(Exc("AttributeError", "object has no attribute 'get'"))
    ELSE LET total_duration == Get(performance, "total_duration_ms", JNum(0)) IN
    IF total_duration.type # "number"
    THEN Raise(Exc("TypeError", "unsupported operand type(s) for /"))
    ELSE Value(<<<<"\n", "Total duration: ", ToString(total_duration.n \div 1000), ".",
                   ToString((total_duration.n % 1000) \div 10), "s">>>>)

\* server.py:459-506: from the response to the return.
IndexAfter(a, r) ==
    IF r.status # 200 THEN StatusError(r)
    ELSE LET parsed == ResponseJson(r) IN
    IF parsed.tag = "raise" THEN parsed
    ELSE LET data == parsed.v
             has_error == KeyIn(data, "error") IN
    IF has_error.tag = "raise" THEN has_error
    ELSE IF data.type # "object" THEN Raise(Exc("AttributeError", "object has no attribute 'get'"))
    ELSE IF has_error.v
    THEN Return(Line(<<"Error", ": ", Str(Get(data, "error", JStr("Unknown error")))>>))
    ELSE IF ~Truthy(Get(data, "success", JNull))
    THEN Return(Line(<<"Error", ": ", "Indexing failed. ",
                       Str(Get(data, "error", JStr("Unknown error")))>>))
    ELSE
    LET source_id_returned == Get(data, "source_id", JStr(""))
        total_tokens == Get(data, "total_tokens", JNum(0))
        timings == IndexTimings(Get(data, "performance", JObj(EmptyFields))) IN
    IF total_tokens.type = "string"
    THEN Raise(Exc("ValueError", "Cannot specify ',' with 's'."))
    ELSE IF total_tokens.type # "number"
    THEN Raise(Exc("TypeError", "unsupported format string"))
    ELSE IF timings.tag = "raise" THEN timings
    ELSE Return(<<<<Equals>>, <<"DOCUMENTATION ADDED & INDEXED">>, <<Equals>>,
                  <<"URL: ", a.url>>,
                  <<"Source ID: ", Str(source_id_returned)>>,
                  <<"Public: ", YesNo(a.is_public, "No (Private)")>>,
                  <<"Pages crawled: ", Str(Get(data, "pages_crawled", JNum(0)))>>,
                  <<"Chunks indexed: ", Str(Get(data, "chunks_indexed", JNum(0)))>>,
                  <<"Total tokens: ">> \o Thousands(total_tokens.n)>>
                \o timings.v
                \o <<<<"\n", Equals>>,
                     <<"The documentation is now searchable!">>,
                     <<"   Use: search_documentation('your query here')">>,
                     <<"   Or: search_documentation('your query', source_id='",
                       Str(source_id_returned), "')">>>>)

\* ----------------------------------------------- manage_documentation_chats
ChatActions == {"list", "create", "get", "delete"}

\* manage_documentation_chats without the checks of server.py:537-541.
ChatsBegin_NoRequiredFields(a, e) ==
    LET api_key == get_api_key(e) IN
    IF api_key.tag = "raise" THEN api_key
    ELSE Post([route |-> "/manage-documentation-chats",
               bearer |-> api_key.v,
               timeout |-> 30,
               payload |-> IF a.action = "create"
                           THEN [title |-> a.title]
                                @@ (IF StrTruthy(a.source_id)
                                    THEN [source_id |-> a.source_id] ELSE <<>>)
                           ELSE <<>>,
               query |-> [action |-> a.action]
                         @@ (IF a.action = "get" \/ a.action = "delete"
                             THEN [chat_id |-> a.chat_id] ELSE <<>>)])

\* server.py:534-574: up to the await of client.post.
ChatsBegin(a, e) ==
    LET api_key == get_api_key(e) IN
    IF api_key.tag = "raise" THEN api_key
    ELSE IF a.action = "create" /\ ~StrTruthy(a.title)
    THEN Return(Line(<<"Error", ": ", "'title' is required for creating a chat">>))
    ELSE IF a.action \in {"get", "delete"} /\ ~StrTruthy(a.chat_id)
    THEN Return(Line(<<"Error", ": ", "'chat_id' is required for action '", a.action, "'">>))
    ELSE Post([route |-> "/manage-documentation-chats",
               bearer |-> api_key.v,
               timeout |-> 30,
               payload |-> IF a.action = "create"
                           THEN [title |-> a.title]
                                @@ (IF StrTruthy(a.source_id)
                                    THEN [source_id |-> a.source_id] ELSE <<>>)
                           ELSE <<>>,
               query |-> [action |-> a.action]
                         @@ (IF a.action = "get" \/ a.action = "delete"
                             THEN [chat_id |-> a.chat_id] ELSE <<>>)])

\* server.py:601-622: the lines of each chat (the model's chats carry no
\* updated_at and no documentation_sources)
RECURSIVE ChatEntries(_, _)
ChatEntries(items, i) ==
    IF i > Len(items) THEN Value(<<>>)
    ELSE LET chat == items[i] IN
    IF chat.type # "object" THEN Raise(Exc("AttributeError", "object has no attribute 'get'"))
    ELSE LET rest == ChatEntries(items, i + 1) IN
    IF rest.tag = "raise" THEN rest
    ELSE Value(<<<<ToString(i), ". ", Str(Get(chat, "title", JStr("Untitled")))>>,
                 <<"   ID: ", Str(Get(chat, "id", JStr("Unknown")))>>,
                 <<"">>>> \o rest.v)

\* server.py:586-628: action == 'list'
ChatsList(data) ==
    LET chats == Get(data, "chats", JArr(<<>>))
        count == Get(data, "count", JNum(0)) IN
    IF ~Truthy(chats)
    THEN Return(Line(<<"No chats found", ". Create a new chat with action='create'.">>))
    ELSE IF chats.type # "array" THEN Raise(Exc("TypeError", "object is not iterable"))
    ELSE LET entries == ChatEntries(chats.items, 1) IN
    IF entries.tag = "raise" THEN entries
    ELSE Return(<<<<Equals>>, <<"YOUR DOCUMENTATION CHATS">>, <<Equals>>,
                  <<"Total chats: ", Str(count)>>, <<"">>>>
                \o entries.v
                \o <<<<Equals>>,
                     <<"\n", "Tip: Use chat_id with search_documentation to continue conversation">>,
                     <<"   Example: search_documentation('query', chat_id='uuid-here')">>>>)

\* server.py:630-642: action == 'create'
ChatsCreate(data) ==
    LET chat == Get(data, "chat", JObj(EmptyFields)) IN
    IF chat.type # "object" THEN Raise(Exc("AttributeError", "object has no attribute 'get'"))
    ELSE Return(<<<<"Chat created successfully!">>, <<"">>,
                  <<"Title: ", Str(Get(chat, "title", JStr("Untitled")))>>,
                  <<"Chat ID: ", Str(Get(chat, "id", JStr("Unknown")))>>>>)

\* server.py:662-679: the lines of each message (the model's messages carry no
\* created_at)
RECURSIVE MessageEntries(_, _)
MessageEntries(items, i) ==
    IF i > Len(items) THEN Value(<<>>)
    ELSE LET msg == items[i] IN
    IF msg.type # "object" THEN Raise(Exc("AttributeError", "object has no attribute 'get'"))
    ELSE LET role == Get(msg, "role", JStr("unknown")) IN
    IF role.type # "string" THEN Raise(Exc("AttributeError", "object has no attribute 'upper'"))
    ELSE LET rest == MessageEntries(items, i + 1) IN
    IF rest.tag = "raise" THEN rest
    ELSE Value(<<<<IF role.s = "user" THEN "[user]" ELSE "[bot]", " ", upper(role.s), " [", "", "]">>,
                 <<Str(Get(msg, "content", JStr("")))>>,
                 <<Dashes>>>> \o rest.v)

\* server.py:644-681: action == 'get'
ChatsGet(data) ==
    LET chat == Get(data, "chat", JObj(EmptyFields))
        messages == Get(data, "messages", JArr(<<>>))
        count == Get(data, "count", JNum(0)) IN
    IF chat.type # "object" THEN Raise(Exc("AttributeError", "object has no attribute 'get'"))
    ELSE LET header == <<<<Equals>>, <<"CHAT: ", Str(Get(chat, "title", JStr("Untitled")))>>,
                         <<Equals>>, <<"Messages: ", Str(count)>>, <<"">>>> IN
    IF ~Truthy(messages) THEN Return(header \o <<<<"No messages in this chat yet.">>>>)
    ELSE IF messages.type # "array" THEN Raise(Exc("TypeError", "object is not iterable"))
    ELSE LET entries == MessageEntries(messages.items, 1) IN
    IF entries.tag = "raise" THEN entries
    ELSE Return(header \o entries.v)

\* server.py:576-687: from the response to the return.
ChatsAfter(a, r) ==
    IF r.status # 200 THEN StatusError(r)
    ELSE LET parsed == ResponseJson(r) IN
    IF parsed.tag = "raise" THEN parsed
    ELSE LET data == parsed.v
             has_error == KeyIn(data, "error") IN
    IF has_error.tag = "raise" THEN has_error
    ELSE IF has_error.v
    THEN Return(Line(<<"Error", ": ", Str(Get(data, "error", JStr("Unknown error")))>>))
    ELSE IF a.action \in {"list", "create", "get"} /\ data.type # "object"
    THEN Raise(Exc("AttributeError", "object has no attribute 'get'"))
    ELSE CASE a.action = "list" -> ChatsList(data)
           [] a.action = "create" -> ChatsCreate(data)
           [] a.action = "get" -> ChatsGet(data)
           [] a.action = "delete" ->
                Return(Line(<<"Chat deleted successfully", " (ID: ", a.chat_id, ")">>))
           [] OTHER -> Return(Line(<<"Unknown action", ": ", a.action>>))

\* ------------------------------------------------------- list_time_periods
\* server.py:706-730: a constant text, no credential and no request.
TimePeriodsHelp ==
    <<<<"Supported time periods for log search:">>,
      <<"Minutes:">>, <<"Hours:">>, <<"Days:">>, <<"Examples:">>>>

\* ------------------------------------------------------------ the inputs
TimePeriods == {None, "", "5m", "1h", "7d", "today", "yesterday", "banana", "25x"}
Levels == {None, "ERROR", "fatal"}
SourceIds == {None, "src-7"}
Actions == ChatActions \cup {"purge"}
Titles == {None, "Runbook"}
ChatIds == {None, "chat-3"}

\* The statuses, content types and instants the model draws from; a body with a
\* tool's fields comes with one of BodyStatuses.
Statuses == {200, 201, 204, 404, 500}
BodyStatuses == {200, 201}
ContentTypes == {"application/json", "text/html"}
Nows == {10 * MinutesPerDay, 10 * MinutesPerDay + 725}

\* One record of a results list.
LogItem == JObj([message |-> JStr("connection refused")])
Items(n) == [k \in 1..n |-> LogItem]

\* The lengths of the results lists the backend returns.
ResultLens == {0, 1} \cup (DisplayCap..MaxResults)
ResultsOpts == {<<"absent", 0>>, <<"null", 0>>, <<"number", 0>>}
               \cup {<<"array", n>> : n \in ResultLens}
TotalOpts == {"absent", "len", "surplus", "string"}
FlagOpts == {"absent", "true", "false"}
ErrorOpts == {"absent", "bad query"}

\* {"success": s, "error": e}, each key present or not
Envelope(s, e) ==
    (IF s = "absent" THEN <<>> ELSE [success |-> JBool(s = "true")])
    @@ (IF e = "absent" THEN <<>> ELSE [error |-> JStr(e)])

\* The body {"success": s, "error": e, "results": r, "total_results": t} of a log search.
LogFields(s, e, r, t) ==
    Envelope(s, e)
    @@ (CASE r[1] = "absent" -> <<>>
          [] r[1] = "null" -> [results |-> JNull]
          [] r[1] = "number" -> [results |-> JNum(7)]
          [] OTHER -> [results |-> JArr(Items(r[2]))])
    @@ (CASE t = "absent" -> <<>>
          [] t = "len" -> [total_results |-> JNum(r[2])]
          [] t = "surplus" -> [total_results |-> JNum(r[2] + Surplus)]
          [] OTHER -> [total_results |-> JStr("many")])

DocItem(content) ==
    JObj([source |-> JObj([name |-> JStr("Agent guide")]), content |-> JStr(content)])
DocResultsOpts == {"absent", "empty", "one", "two", "number"}
AnswerOpts == {"absent", "null", "", "   ", " Restart the agent. "}

\* The body of a documentation search.
DocFields(s, e, r, ans) ==
    Envelope(s, e)
    @@ (CASE r = "absent" -> <<>>
          [] r = "empty" -> [results |-> JArr(<<>>)]
          [] r = "one" -> [results |-> JArr(<<DocItem("Set STRAYL_API_KEY first.")>>)]
          [] r = "two" -> [results |-> JArr(<<DocItem(Content300), DocItem(Content301)>>)]
          [] OTHER -> [results |-> JNum(7)])
    @@ (CASE ans = "absent" -> <<>>
          [] ans = "null" -> [structured_answer |-> JNull]
          [] OTHER -> [structured_answer |-> JStr(ans)])

SourceItem ==
    JObj([status |-> JStr("ready"), url |-> JStr("https://docs.example.com"),
          is_public |-> JBool(TRUE), name |-> JStr("Agent guide"),
          id |-> JStr("src-7")])
ListOpts == {"absent", "empty", "one", "number"}

\* The body of a listing of sources.
SourcesFields(s, e, l) ==
    Envelope(s, e)
    @@ (CASE l = "absent" -> <<>>
          [] l = "empty" -> [sources |-> JArr(<<>>), count |-> JNum(0)]
          [] l = "one" -> [sources |-> JArr(<<SourceItem>>), count |-> JNum(1)]
          [] OTHER -> [sources |-> JNum(7)])

TokenOpts == {"absent", "number", "string"}
TimingOpts == {"absent", "present"}

\* The body of an indexing run.
IndexFields(s, e, tok, perf) ==
    Envelope(s, e)
    @@ (CASE tok = "absent" -> <<>>
          [] tok = "number" -> [source_id |-> JStr("src-7"), total_tokens |-> JNum(51234),
                                pages_crawled |-> JNum(12), chunks_indexed |-> JNum(340)]
          [] OTHER -> [total_tokens |-> JStr("many")])
    @@ (IF perf = "absent" THEN <<>>
        ELSE [performance |-> JObj([total_duration_ms |-> JNum(92500)])])

ChatItem == JObj([title |-> JStr("Runbook"), id |-> JStr("chat-3")])
MessageItem == JObj([content |-> JStr("how do I rotate the key?"), role |-> JStr("user")])

\* The body of a chat-management reply.
ChatFields(s, e, l) ==
    Envelope(s, e)
    @@ (CASE l = "absent" -> <<>>
          [] l = "empty" -> [count |-> JNum(0), chats |-> JArr(<<>>), messages |-> JArr(<<>>)]
          [] l = "one" -> [count |-> JNum(1), chat |-> ChatItem,
                           chats |-> JArr(<<ChatItem>>), messages |-> JArr(<<MessageItem>>)]
          [] OTHER -> [chat |-> JNum(7), chats |-> JNum(7), messages |-> JNum(7)])

\* The bodies a response can carry: not JSON, or JSON.
NotJson == [text |-> "<html>Bad Gateway</html>", json |-> FALSE]
JsonBody(v) == [text |-> "<json>", value |-> v, json |-> TRUE]
\* Bodies with none of a tool's fields.
BareBodies ==
    {"not json", "array", "null", "empty object", "error object"}
BareBody(b) ==
    CASE b = "not json" -> NotJson
      [] b = "array" -> JsonBody(JArr(<<>>))
      [] b = "null" -> JsonBody(JNull)
      [] b = "empty object" -> JsonBody(JObj(EmptyFields))
      [] OTHER -> JsonBody(JObj([error |-> JStr("quota exceeded")]))

\* -------------------------------------------------------- the state machine
NoOutcome == [tag |-> "none"]
NoRequest == [route |-> None]
NoResponse == [kind |-> "none"]

Init ==
    /\ env \in {[set |-> FALSE, value |-> ""], [set |-> TRUE, value |-> ""],
                [set |-> TRUE, value |-> "sk-live-1"]}
    /\ pc = [i \in Calls |-> "idle"]
    /\ tool = [i \in Calls |-> None]
    /\ args = [i \in Calls |-> <<>>]
    /\ nreq = [i \in Calls |-> 0]
    /\ req = [i \in Calls |-> NoRequest]
    /\ resp = [i \in Calls |-> NoResponse]
    /\ result = [i \in Calls |-> NoOutcome]

\* Advance with the outcome kept in one place that all invocations share.
Advance_SharedOutcome(i, out) ==
    /\ pc' = [pc EXCEPT ![i] = CASE out.tag = "post" -> "await"
                                 [] out.tag = "return" -> "done"
                                 [] OTHER -> "raised"]
    /\ nreq' = [nreq EXCEPT ![i] = IF out.tag = "post" THEN @ + 1 ELSE @]
    /\ req' = [req EXCEPT ![i] = IF out.tag = "post" THEN out.request ELSE @]
    /\ result' = [j \in Calls |-> IF out.tag = "post" THEN result[j] ELSE out]

\* The coroutine of call i runs to `out`: a return, an escaping fault, or the
\* await of one more client.post.
Advance(i, out) ==
    /\ pc' = [pc EXCEPT ![i] = CASE out.tag = "post" -> "await"
                                 [] out.tag = "return" -> "done"
                                 [] OTHER -> "raised"]
    /\ nreq' = [nreq EXCEPT ![i] = IF out.tag = "post" THEN @ + 1 ELSE @]
    /\ req' = [req EXCEPT ![i] = IF out.tag = "post" THEN out.request ELSE @]
    /\ result' = [result EXCEPT ![i] = IF out.tag = "post" THEN @ ELSE out]

\* Call i enters tool t with arguments a; its try body runs to `out`.
Enter(i, t, a, out) ==
    /\ pc[i] = "idle"
    /\ tool' = [tool EXCEPT ![i] = t]
    /\ args' = [args EXCEPT ![i] = a]
    /\ Advance(i, Try(t, out))
    /\ UNCHANGED <<env, resp>>

\* Call i, suspended in tool t, resumes with the transport's answer.
Resume(i, t, out) ==
    /\ pc[i] = "arrived"
    /\ tool[i] = t
    /\ Advance(i, Try(t, IF resp[i].kind = "raise" THEN Raise(resp[i].exc) ELSE out))
    /\ UNCHANGED <<env, tool, args, resp>>

search_logs_semantic(i) ==
    \E tp \in TimePeriods, now \in Nows :
        LET a == [query |-> "disk full", match_threshold |-> "0.2",
                  match_count |-> "50", time_period |-> tp] IN
        Enter(i, "search_logs_semantic", a, SemanticBegin(a, env, now))

search_logs_semantic_resume(i) ==
    Resume(i, "search_logs_semantic", SemanticAfter(args[i], resp[i]))

search_logs_exact(i) ==
    \E tp \in TimePeriods, lv \in Levels, now \in Nows :
        LET a == [query |-> "timeout", time_period |-> tp, level |-> lv,
                  case_sensitive |-> "False", limit |-> "50"] IN
        Enter(i, "search_logs_exact", a, ExactBegin(a, env, now))

search_logs_exact_resume(i) ==
    Resume(i, "search_logs_exact", ExactAfter(args[i], resp[i]))

search_documentation(i) ==
    \E sid \in SourceIds :
        LET a == [query |-> "rotate api key", use_ai |-> TRUE, chat_id |-> None,
                  source_id |-> sid] IN
        Enter(i, "search_documentation", a, DocBegin(a, env))

search_documentation_resume(i) ==
    Resume(i, "search_documentation", DocAfter(args[i], resp[i]))

list_documentation_sources(i) ==
    \E pub \in BOOLEAN, priv \in BOOLEAN :
        LET a == [include_public |-> pub, include_private |-> priv] IN
        Enter(i, "list_documentation_sources", a, SourcesBegin(a, env))

list_documentation_sources_resume(i) ==
    Resume(i, "list_documentation_sources", SourcesAfter(args[i], resp[i]))

index_documentation(i) ==
    \E pub \in BOOLEAN :
        LET a == [url |-> "https://docs.example.com", is_public |-> pub, force |-> FALSE] IN
        Enter(i, "index_documentation", a, IndexBegin(a, env))

index_documentation_resume(i) ==
    Resume(i, "index_documentation", IndexAfter(args[i], resp[i]))

manage_documentation_chats(i) ==
    \E act \in Actions, ti \in Titles, cid \in ChatIds :
        LET a == [chat_id |-> cid, source_id |-> None, action |-> act, title |-> ti] IN
        Enter(i, "manage_documentation_chats", a, ChatsBegin(a, env))

manage_documentation_chats_resume(i) ==
    Resume(i, "manage_documentation_chats", ChatsAfter(args[i], resp[i]))

list_time_periods(i) ==
    Enter(i, "list_time_periods", <<>>, Return(TimePeriodsHelp))

LogTools == {"search_logs_semantic", "search_logs_exact"}
NetworkTools == LogTools \cup {"search_documentation", "list_documentation_sources",
                               "index_documentation", "manage_documentation_chats"}

\* The transport hands call i the answer r to its request.
Deliver(i, r) ==
    /\ pc[i] = "await"
    /\ resp' = [resp EXCEPT ![i] = r]
    /\ pc' = [pc EXCEPT ![i] = "arrived"]
    /\ UNCHANGED <<env, tool, args, nreq, req, result>>

Response(status, ctype, body) ==
    [body |-> body, ctype |-> ctype, status |-> status, kind |-> "response"]
JsonResponse(status, fields) ==
    Response(status, "application/json", JsonBody(JObj(fields)))

BackendAnswersLogSearch(i) ==
    /\ tool[i] \in LogTools
    /\ \E st \in BodyStatuses, s \in FlagOpts, e \in ErrorOpts,
          r \in ResultsOpts, t \in TotalOpts :
          Deliver(i, JsonResponse(st, LogFields(s, e, r, t)))

BackendAnswersDocSearch(i) ==
    /\ tool[i] = "search_documentation"
    /\ \E st \in BodyStatuses, s \in FlagOpts, e \in ErrorOpts,
          r \in DocResultsOpts, ans \in AnswerOpts :
          Deliver(i, JsonResponse(st, DocFields(s, e, r, ans)))

BackendAnswersSources(i) ==
    /\ tool[i] = "list_documentation_sources"
    /\ \E st \in BodyStatuses, s \in FlagOpts, e \in ErrorOpts, l \in ListOpts :
          Deliver(i, JsonResponse(st, SourcesFields(s, e, l)))

BackendAnswersIndexing(i) ==
    /\ tool[i] = "index_documentation"
    /\ \E st \in BodyStatuses, s \in FlagOpts, e \in ErrorOpts,
          tok \in TokenOpts, perf \in TimingOpts :
          Deliver(i, JsonResponse(st, IndexFields(s, e, tok, perf)))

BackendAnswersChats(i) ==
    /\ tool[i] = "manage_documentation_chats"
    /\ \E st \in BodyStatuses, s \in FlagOpts, e \in ErrorOpts, l \in ListOpts :
          Deliver(i, JsonResponse(st, ChatFields(s, e, l)))

\* Any status, any content type, a body with none of the tool's fields.
BackendAnswersBare(i) ==
    \E st \in Statuses, ct \in ContentTypes, b \in BareBodies :
        Deliver(i, Response(st, ct, BareBody(b)))

RequestTimesOut(i) ==
    Deliver(i, [exc |-> Exc("ReadTimeout", ""), kind |-> "raise"])

ConnectionFails(i) ==
    Deliver(i, [exc |-> Exc("ConnectError", "All connection attempts failed"), kind |-> "raise"])

Next ==
    \E i \in SeqCalls :
        \/ search_logs_semantic(i)
        \/ search_logs_semantic_resume(i)
        \/ search_logs_exact(i)
        \/ search_logs_exact_resume(i)
        \/ search_documentation(i)
        \/ search_documentation_resume(i)
        \/ list_documentation_sources(i)
        \/ list_documentation_sources_resume(i)
        \/ index_documentation(i)
        \/ index_documentation_resume(i)
        \/ manage_documentation_chats(i)
        \/ manage_documentation_chats_resume(i)
        \/ list_time_periods(i)
        \/ BackendAnswersLogSearch(i)
        \/ BackendAnswersDocSearch(i)
        \/ BackendAnswersSources(i)
        \/ BackendAnswersIndexing(i)
        \/ BackendAnswersChats(i)
        \/ BackendAnswersBare(i)
        \/ RequestTimesOut(i)
        \/ ConnectionFails(i)

Spec == Init /\ [][Next]_vars


\* -------------------------------------------------- concurrent invocations
\* The host serves invocations concurrently (server.py:10-21, the coroutines
\* of mcp.tool): the steps of the calls interleave at every await.  The
\* arguments and the backend answers of ConcurrentSpec are a part of those of
\* Spec: arguments none of which is the empty string, one time period of each
\* outcome, and as answer a transport fault, a status 500 with an error
\* object, or a status 200 with a well-formed body of at most one record.
PlainArgs(a) ==
    \A k \in DOMAIN a :
        CASE k = "time_period" -> a[k] \in {None, "1h", "banana"}
          [] k = "level" -> a[k] # "ERROR"
          [] k = "action" -> a[k] \in ChatActions
          [] k = "title" -> a[k] # None
          [] k = "include_public" -> a[k]
          [] k = "include_private" -> a[k]
          [] OTHER -> TRUE
PlainValue(v) ==
    CASE v.type = "null" -> FALSE
      [] v.type = "number" -> v.n # 7
      [] v.type = "string" -> v.s \notin {"", "   ", "many"}
      [] v.type = "array" -> Len(v.items) <= 1
      [] OTHER -> TRUE
PlainResponse(r) ==
    \/ r.kind # "response"
    \/ /\ r.status = 500 /\ r.ctype = "application/json"
       /\ r.body.json /\ r.body.value.type = "object" /\ Has(r.body.value, "error")
    \/ /\ r.status = 200 /\ r.body.json /\ r.body.value.type = "object"
       /\ LET fields == r.body.value.fields IN
          /\ DOMAIN fields \cap {"success", "error", "total_results"} = {"success"}
          /\ \A k \in DOMAIN fields : PlainValue(fields[k])
Plain(i) == PlainArgs(args[i]) /\ PlainResponse(resp[i])

ConcurrentNext ==
    \E i \in Calls :
        \/ search_logs_semantic(i) /\ Plain(i)'
        \/ search_logs_semantic_resume(i) /\ Plain(i)'
        \/ search_logs_exact(i) /\ Plain(i)'
        \/ search_logs_exact_resume(i) /\ Plain(i)'
        \/ search_documentation(i) /\ Plain(i)'
        \/ search_documentation_resume(i) /\ Plain(i)'
        \/ list_documentation_sources(i) /\ Plain(i)'
        \/ list_documentation_sources_resume(i) /\ Plain(i)'
        \/ index_documentation(i) /\ Plain(i)'
        \/ index_documentation_resume(i) /\ Plain(i)'
        \/ manage_documentation_chats(i) /\ Plain(i)'
        \/ manage_documentation_chats_resume(i) /\ Plain(i)'
        \/ list_time_periods(i) /\ Plain(i)'
        \/ BackendAnswersLogSearch(i) /\ Plain(i)'
        \/ BackendAnswersDocSearch(i) /\ Plain(i)'
        \/ BackendAnswersSources(i) /\ Plain(i)'
        \/ BackendAnswersIndexing(i) /\ Plain(i)'
        \/ BackendAnswersChats(i) /\ Plain(i)'
        \/ BackendAnswersBare(i) /\ Plain(i)'
        \/ RequestTimesOut(i) /\ Plain(i)'
        \/ ConnectionFails(i) /\ Plain(i)'

ConcurrentSpec == Init /\ [][ConcurrentNext]_vars

\* ------------------------------------------------------------------ claims
\* The credential is present: STRAYL_API_KEY is set and not empty.
CredentialPresent == env.set /\ env.value # ""
Entered(i) == pc[i] # "idle"
Returned(i) == pc[i] = "done"
Text(i) == result[i].text
\* Call i has returned after an HTTP response (not a transport fault) came back.
Replied(i) == Returned(i) /\ resp[i].kind = "response"
\* The parsed body of the response of call i is a JSON object.
ObjectBody(i) == resp[i].body.json /\ resp[i].body.value.type = "object"
Body(i) == resp[i].body.value
Is2xx(status) == status \in 200..299
ErrorText(text) == StartsWith(text, "Error") \/ StartsWith(text, "Configuration error")

\* C1: every invocation of every tool, whatever its inputs, the credential and
\* the backend's behaviour, ends by returning a text: no fault escapes the tool
\* and what is returned is a non-empty text.
C1_Totality ==
    \A i \in Calls :
        /\ pc[i] # "raised"
        /\ Returned(i) => result[i].tag = "return" /\ Len(Text(i)) > 0

\* A body of unexpected shape (a JSON array where an object is expected) came
\* back with status 200 and the tool returned an error text.
C1_Witness ==
    \E i \in Calls :
        /\ Replied(i) /\ resp[i].status = 200
        /\ resp[i].body.json /\ resp[i].body.value.type = "array"
        /\ StartsWith(Text(i), "Error")

\* C2: with STRAYL_API_KEY absent or empty, every network tool that has been
\* entered has returned a text labelled 'Configuration error' and has issued no
\* HTTP request, whatever its other inputs.
C2_NoCredentialNoRequest ==
    \A i \in Calls :
        (~CredentialPresent /\ Entered(i) /\ tool[i] \in NetworkTools)
            => /\ Returned(i)
               /\ StartsWith(Text(i), "Configuration error")
               /\ nreq[i] = 0

\* search_logs_exact was called without a credential and with an invalid level
\* and an unrecognized time period, and returned.
C2_Witness ==
    \E i \in Calls :
        /\ ~CredentialPresent /\ Returned(i) /\ tool[i] = "search_logs_exact"
        /\ args[i].level = "fatal" /\ args[i].time_period = "banana"

\* C3: a network tool returns a text labelled 'Configuration error' if and only
\* if the credential is absent; with the credential present no backend
\* behaviour yields that label.
C3_ConfigurationErrorIffNoCredential ==
    \A i \in Calls :
        (Returned(i) /\ tool[i] \in NetworkTools)
            => (StartsWith(Text(i), "Configuration error") <=> ~CredentialPresent)

\* C4: manage_documentation_chats called with an action outside list, create,
\* get, delete returns an error text and issues no HTTP request.
C4_ActionValidatedBeforeRequest ==
    \A i \in Calls :
        (Entered(i) /\ tool[i] = "manage_documentation_chats"
         /\ args[i].action \notin ChatActions)
            => nreq[i] = 0 /\ Returned(i) /\ ErrorText(Text(i))

\* The resolver reports failure for the token at every instant.
ResolverFails(token) == \A now \in Nows : parse_time_period(token, now)[1] = NoneTime

\* C5: in both log search tools, when a time_period token is supplied and the
\* resolver (reached once the credential is read) reports failure, the
\* invocation has returned an error text naming the token and has issued no
\* HTTP request.
C5_BadTimePeriodShortCircuits ==
    \A i \in Calls :
        (Entered(i) /\ tool[i] \in LogTools /\ CredentialPresent
         /\ StrTruthy(args[i].time_period) /\ ResolverFails(args[i].time_period))
            => /\ Returned(i)
               /\ StartsWith(Text(i), "Error")
               /\ Contains(Text(i), args[i].time_period)
               /\ nreq[i] = 0

\* search_logs_semantic, with the credential, returned on the token 'banana'.
C5_Witness ==
    \E i \in Calls :
        /\ CredentialPresent /\ Returned(i) /\ tool[i] = "search_logs_semantic"
        /\ args[i].time_period = "banana"

\* The inputs of tool t pass the validation the tools are specified to do.
InputsValid(t, a) ==
    CASE t \in LogTools ->
            /\ StrTruthy(a.time_period) => TokenRule(a.time_period).rule # "none"
            /\ (t = "search_logs_exact" /\ StrTruthy(a.level)) => lower(a.level) \in LogLevels
      [] t = "manage_documentation_chats" ->
            /\ a.action \in ChatActions
            /\ a.action = "create" => StrTruthy(a.title)
            /\ a.action \in {"get", "delete"} => StrTruthy(a.chat_id)
      [] OTHER -> TRUE

\* What C6 says of call i, the exactly-one part being claimed of the tools in `ts`.
SingleAttempt(i, ts) ==
    /\ nreq[i] <= 1
    /\ (Entered(i) /\ tool[i] \in ts /\ CredentialPresent /\ InputsValid(tool[i], args[i]))
          => nreq[i] = 1
    /\ (Returned(i) /\ resp[i].kind = "raise")
          => /\ StartsWith(Text(i), "Error")
             /\ IsInstance(resp[i].exc.cls, "TimeoutException") => Contains(Text(i), "timed out")

\* C6 as stated: every tool invocation issues at most one HTTP request, and
\* exactly one when the credential is present and all inputs pass validation;
\* after a timeout or a transport fault it returns one error text (naming the
\* timeout) and issues no further request.
C6_SingleAttemptEveryTool ==
    \A i \in Calls : SingleAttempt(i, NetworkTools \cup {"list_time_periods"})

\* C6 amended: the same, with exactly one request claimed of the network tools
\* only (list_time_periods issues none).
C6_SingleAttempt ==
    \A i \in Calls : SingleAttempt(i, NetworkTools)

\* index_documentation timed out and returned the text naming the timeout,
\* having issued its one request.
C6_Witness ==
    \E i \in Calls :
        /\ Returned(i) /\ tool[i] = "index_documentation"
        /\ resp[i].kind = "raise" /\ resp[i].exc.cls = "ReadTimeout"
        /\ nreq[i] = 1 /\ Contains(Text(i), "timed out")

\* A text that renders an empty result set.
EmptyResultText(text) ==
    \/ StartsWith(text, "No logs found") \/ StartsWith(text, "No documentation found")
    \/ StartsWith(text, "No documentation sources found") \/ StartsWith(text, "No chats found")

\* C7: for every network tool, a 2xx response whose JSON body carries
\* success = false or an 'error' key is returned as an error text, containing
\* the body's error message when it has one, never as an empty-result message
\* or a success rendering.
C7_DomainErrorOn2xx ==
    \A i \in Calls :
        (Replied(i) /\ tool[i] \in NetworkTools /\ Is2xx(resp[i].status) /\ ObjectBody(i)
         /\ (Has(Body(i), "error")
             \/ (Has(Body(i), "success") /\ ~Truthy(Body(i).fields["success"]))))
            => /\ StartsWith(Text(i), "Error")
               /\ ~EmptyResultText(Text(i))
               /\ Has(Body(i), "error") => Contains(Text(i), Str(Body(i).fields["error"]))

\* C8: for every network tool, a response is returned as an API status error
\* (a text with the status code) if and only if its status is outside 2xx.
C8_StatusErrorIffNot2xx ==
    \A i \in Calls :
        (Replied(i) /\ tool[i] \in NetworkTools)
            => ((/\ Contains(Text(i), "API returned status ")
                 /\ Contains(Text(i), ToString(resp[i].status)))
                <=> ~Is2xx(resp[i].status))

\* The lines of a text that are log entries: "<n>. <record>".
EntryLines(text) == {k \in DOMAIN text : Len(text[k]) = 3 /\ text[k][2] = ". "}
\* The lines of a text that are the notice "... and <n> more results".
NoticeLines(text) == {k \in DOMAIN text : Len(text[k]) = 4 /\ text[k][2] = "... and "}
Min(a, b) == IF a < b THEN a ELSE b

\* C9: in both log search tools, a successful response with R >= 1 results is
\* rendered as exactly min(R, 10) entries, with the notice '... and N more
\* results' as last line exactly when R > 10, N being R - 10, whatever number
\* the backend reports in total_results, and when it reports none.
C9_DisplayCap ==
    \A i \in Calls :
        (Replied(i) /\ tool[i] \in LogTools /\ resp[i].status = 200 /\ ObjectBody(i)
         /\ Truthy(Get(Body(i), "success", JNull))
         /\ Has(Body(i), "results") /\ Body(i).fields["results"].type = "array"
         /\ Len(Body(i).fields["results"].items) >= 1
         /\ (Has(Body(i), "total_results") => Body(i).fields["total_results"].type = "number"))
            => LET R == Len(Body(i).fields["results"].items) IN
               /\ Cardinality(EntryLines(Text(i))) = Min(R, DisplayCap)
               /\ (NoticeLines(Text(i)) # {}) <=> (R > DisplayCap)
               /\ R > DisplayCap =>
                     /\ NoticeLines(Text(i)) = {Len(Text(i))}
                     /\ Text(i)[Len(Text(i))][3] = ToString(R - DisplayCap)

\* C10: in both log search tools, a 200 response with success true and an
\* empty results list is returned as a 'No logs found' text naming the query
\* and every filter the caller supplied (the time period, and for
\* search_logs_exact the level), never as a text starting with 'Error'.
C10_EmptyResultNotError ==
    \A i \in Calls :
        (Replied(i) /\ tool[i] \in LogTools /\ resp[i].status = 200 /\ ObjectBody(i)
         /\ Truthy(Get(Body(i), "success", JNull))
         /\ Has(Body(i), "results") /\ Body(i).fields["results"].type = "array"
         /\ Len(Body(i).fields["results"].items) = 0)
            => /\ StartsWith(Text(i), "No logs found")
               /\ ~StartsWith(Text(i), "Error")
               /\ Contains(Text(i), args[i].query)
               /\ StrTruthy(args[i].time_period) => Contains(Text(i), args[i].time_period)
               /\ (tool[i] = "search_logs_exact" /\ StrTruthy(args[i].level))
                     => Contains(Text(i), args[i].level)

\* search_logs_exact, called with a time period and a level, got an empty
\* results list with success true and returned the 'No logs found' text.
C10_Witness ==
    \E i \in Calls :
        /\ Replied(i) /\ tool[i] = "search_logs_exact" /\ resp[i].status = 200
        /\ ObjectBody(i) /\ Truthy(Get(Body(i), "success", JNull))
        /\ Has(Body(i), "results") /\ Body(i).fields["results"].type = "array"
        /\ Len(Body(i).fields["results"].items) = 0
        /\ args[i].time_period = "1h" /\ args[i].level = "ERROR"
        /\ StartsWith(Text(i), "No logs found")

\* Call i is a search_documentation that got a 200 response whose body is a
\* JSON object without an 'error' key.
DocReplied(i) ==
    /\ Replied(i) /\ tool[i] = "search_documentation" /\ resp[i].status = 200
    /\ ObjectBody(i) /\ ~Has(Body(i), "error")
\* The results list of the body is present and is a list of n records for some n in ns.
ResultsCount(i, ns) ==
    /\ Has(Body(i), "results") /\ Body(i).fields["results"].type = "array"
    /\ Len(Body(i).fields["results"].items) \in ns
\* The body has no usable structured answer: missing, null, empty or blank.
NoUsableAnswer(i) ==
    LET answer == Get(Body(i), "structured_answer", JNull) IN
    \/ answer.type = "null"
    \/ answer.type = "string" /\ strip(answer.s) = ""
\* Some line of the text is the header of the raw-results rendering.
HasResultsHeader(text) ==
    \E k \in DOMAIN text : Len(text[k]) > 2 /\ text[k][3] = " result(s) for query: "

\* C11: search_documentation, on a successful response with an empty results
\* list and no usable structured answer (missing, null, empty or blank),
\* returns the 'No documentation found' text naming the query and the
\* source_id filter when one was supplied, never a header of zero results.
C11_EmptyDocumentationResult ==
    \A i \in Calls :
        (DocReplied(i) /\ ResultsCount(i, {0}) /\ NoUsableAnswer(i))
            => /\ StartsWith(Text(i), "No documentation found")
               /\ Contains(Text(i), args[i].query)
               /\ StrTruthy(args[i].source_id) => Contains(Text(i), args[i].source_id)
               /\ ~HasResultsHeader(Text(i))

\* The line of the raw-results rendering that carries the content of record n:
\* a header line, then two lines a record.
ContentLine(text, n) == text[2 * n + 1]
\* The ellipsis marker is on the line.
HasEllipsis(line) == \E j \in DOMAIN line : line[j] = "..."

\* C12: in the raw-results rendering of search_documentation, the body of
\* each record is rendered with at most 300 characters of its content,
\* unchanged when the content has 300 characters or fewer, and the ellipsis
\* marker follows it if and only if the content was longer than 300 characters.
C12_EllipsisIffTruncated ==
    \A i \in Calls :
        (DocReplied(i) /\ ResultsCount(i, 1..2) /\ NoUsableAnswer(i))
            => \A n \in DOMAIN Body(i).fields["results"].items :
                  LET content == Body(i).fields["results"].items[n].fields["content"].s
                      line == ContentLine(Text(i), n) IN
                  /\ HasResultsHeader(Text(i))
                  /\ len(line[2]) <= ContentBudget
                  /\ len(content) <= ContentBudget => line[2] = content
                  /\ HasEllipsis(line) <=> len(content) > ContentBudget

\* The inputs of call i fail a check on an enumerated or action-required
\* field: a level that is supplied and is none of the four, 'create' without
\* a title, 'get' or 'delete' without a chat_id.
FieldInvalid(i) ==
    \/ /\ tool[i] = "search_logs_exact"
       /\ StrTruthy(args[i].level) /\ lower(args[i].level) \notin LogLevels
    \/ /\ tool[i] = "manage_documentation_chats"
       /\ \/ args[i].action = "create" /\ ~StrTruthy(args[i].title)
          \/ args[i].action \in {"get", "delete"} /\ ~StrTruthy(args[i].chat_id)

Begin(t, a, e, now) ==
    CASE t = "search_logs_semantic" -> SemanticBegin(a, e, now)
      [] t = "search_logs_exact" -> ExactBegin(a, e, now)
      [] t = "search_documentation" -> DocBegin(a, e)
      [] t = "list_documentation_sources" -> SourcesBegin(a, e)
      [] t = "index_documentation" -> IndexBegin(a, e)
      [] t = "manage_documentation_chats" -> ChatsBegin(a, e)
      [] OTHER -> Return(TimePeriodsHelp)
After(t, a, r) ==
    CASE t = "search_logs_semantic" -> SemanticAfter(a, r)
      [] t = "search_logs_exact" -> ExactAfter(a, r)
      [] t = "search_documentation" -> DocAfter(a, r)
      [] t = "list_documentation_sources" -> SourcesAfter(a, r)
      [] t = "index_documentation" -> IndexAfter(a, r)
      [] OTHER -> ChatsAfter(a, r)

\* Call i is where tool t, run alone on arguments a with environment e at
\* instant now and answered r, would be: the same request issued, and once it
\* has returned the same text.
AsAlone(i, t, a, e, now, r) ==
    LET begun == Try(t, Begin(t, a, e, now)) IN
    IF begun.tag # "post"
    THEN nreq[i] = 0 /\ req[i] = NoRequest /\ result[i] = begun
    ELSE /\ nreq[i] = 1 /\ req[i] = begun.request
         /\ IF pc[i] \in {"await", "arrived"}
            THEN result[i] = NoOutcome
            ELSE result[i] = Try(t, IF r.kind = "raise" THEN Raise(r.exc) ELSE After(t, a, r))

\* C14: under every interleaving of two concurrent invocations, each call
\* issues the request and returns the text that its tool, run alone with the
\* same arguments, the same credential and the same backend answer, issues and
\* returns; a call that has not been entered holds nothing.
C14_Independence ==
    \A i \in Calls :
        IF Entered(i)
        THEN \E now \in Nows : AsAlone(i, tool[i], args[i], env, now, resp[i])
        ELSE nreq[i] = 0 /\ req[i] = NoRequest /\ resp[i] = NoResponse /\ result[i] = NoOutcome

\* Two invocations of search_logs_exact overlapped: while the first still
\* awaits its answer, the second, entered with other arguments, has got its
\* answer and returned.
C14_Witness ==
    /\ tool[1] = "search_logs_exact" /\ tool[2] = "search_logs_exact"
    /\ pc[1] = "await" /\ Replied(2) /\ resp[2].status = 200
    /\ args[1] # args[2] /\ req[1] # req[2]
    /\ StartsWith(Text(2), "Exact Search Results for: '")

\* What C15 says of the interval <<start, end>> that token resolves to at
\* instant now: start before end, a relative window exactly as wide as the
\* token says, 'yesterday' the 24 hours up to the most recent midnight.
IntervalAsClaimed(token, start, end, now) ==
    LET r == TokenRule(token) IN
    /\ start < end
    /\ r.rule = "relative" => end - start = r.width
    /\ r.rule = "yesterday" => end = Midnight(now) /\ end - start = MinutesPerDay
\* Call i is a log search entered with the credential, a time-period token
\* and, for search_logs_exact, no level the tool refuses.
LogSearchWithPeriod(i) ==
    /\ Entered(i) /\ tool[i] \in LogTools /\ CredentialPresent
    /\ StrTruthy(args[i].time_period)
    /\ (tool[i] = "search_logs_exact" /\ StrTruthy(args[i].level))
          => lower(args[i].level) \in LogLevels

\* C15: for a log search with a time-period token, a token the resolver
\* recognizes (relative Nm/Nh/Nd, 'today', 'yesterday') puts in the request
\* payload the start_time and end_time the resolver returns, with
\* start < end, a relative window exactly N minutes/hours/days wide and
\* 'yesterday' exactly 24 hours ending at the most recent UTC midnight; an
\* unrecognized token ('banana', '25x') yields the failure outcome, no
\* request and no default interval.
C15_IntervalAtToolBoundary ==
    \A i \in Calls :
        LogSearchWithPeriod(i)
            => IF TokenRule(args[i].time_period).rule = "none"
               THEN nreq[i] = 0 /\ Returned(i) /\ StartsWith(Text(i), "Error")
               ELSE /\ nreq[i] = 1
                    /\ {"start_time", "end_time"} \subseteq DOMAIN req[i].payload
                    /\ \E now \in Nows :
                          LET times == parse_time_period(args[i].time_period, now) IN
                          /\ req[i].payload.start_time = isoformat(times[1])
                          /\ req[i].payload.end_time = isoformat(times[2])
                          /\ IntervalAsClaimed(args[i].time_period, times[1], times[2], now)

\* The request payload of call i carries the key.
InPayload(i, key) == key \in DOMAIN req[i].payload

\* C16: in both log search tools every issued request carries start_time and
\* end_time both or neither: both exactly when a non-empty time_period was
\* supplied (and resolved, or no request would have been issued), neither when
\* time_period is None or the empty string; and with None or the empty string
\* the request is issued all the same.
C16_TimeFilterAllOrNothing ==
    \A i \in Calls :
        (Entered(i) /\ tool[i] \in LogTools)
            => /\ nreq[i] = 1 =>
                    /\ InPayload(i, "start_time") <=> InPayload(i, "end_time")
                    /\ InPayload(i, "start_time") <=> StrTruthy(args[i].time_period)
               /\ (/\ CredentialPresent /\ ~StrTruthy(args[i].time_period)
                   /\ (tool[i] = "search_logs_exact" /\ StrTruthy(args[i].level))
                         => lower(args[i].level) \in LogLevels)
                     => nreq[i] = 1

\* search_logs_exact was called with the empty string as time_period and
\* issued its request, with neither start_time nor end_time.
C16_Witness ==
    /\ tool[1] = "search_logs_exact" /\ args[1].time_period = "" /\ nreq[1] = 1
    /\ ~InPayload(1, "start_time") /\ ~InPayload(1, "end_time")

=============================================================================
